---- MODULE Spec2Model ----
(***************************************************************************)
(* Model of lsdb.io.to_hipscat: the export of a partitioned catalog to a   *)
(* HiPSCat directory (src/src/lsdb/io/to_hipscat.py).                      *)
(*                                                                         *)
(* One call of to_hipscat is a straight-line pipeline; the model follows   *)
(* it statement by statement with a program counter.  The file system, the *)
(* heap objects of the catalog descriptor and the log of I/O calls are     *)
(* state.  Calls follow one another (the caller may export again once a    *)
(* call has returned or raised).                                           *)
(***************************************************************************)
EXTENDS Integers, Sequences, FiniteSets, TLC

\* ---------------------------------------------------------------- bounds
MaxLen == 2      \* most tile keys in the catalog's pixel map
MaxRows == 2     \* most rows in one partition

\* ---------------------------------------------------------------- inputs
HealpixPixels ==
    { [order |-> 0, pixel |-> 3], [order |-> 1, pixel |-> 3], [order |-> 1, pixel |-> 1] }

BasePaths == {"d1", "occupied"}   \* a free path and a path occupied by a file
CatalogNameArgs == {"None", "", "new_sky"}
StorageOptionArgs == {"None", "opts"}

NoPixel == [order |-> -1, pixel |-> -1]
NoException == [type |-> "None", cause |-> "None"]

\* a dataframe of n rows
DataFrame(n) == [r \in 1..n |-> r]

\* Python truthiness of an optional string
Truthy(s) == s # "None" /\ s # ""

RECURSIVE SeqsOver(_, _)
SeqsOver(S, n) ==
    IF n = 0 THEN {<< >>}
    ELSE LET shorter == SeqsOver(S, n - 1)
         IN shorter \cup { Append(s, x) : s \in {t \in shorter : Len(t) = n - 1}, x \in S }

Range(s) == { s[j] : j \in DOMAIN s }
Distinct(s) == Cardinality(Range(s)) = Len(s)

\* ------------------------------------------------------------------ state
VARIABLES
    ddf_pixel_map,               \* catalog._ddf_pixel_map: sequence of [pixel, index] (dict order)
    ddf,                         \* catalog._ddf.partitions: sequence of dataframes
    structs,                     \* heap of hc.catalog.Catalog objects, by reference
    infos,                       \* heap of CatalogInfo dataclass objects, by reference
    disk,                        \* file system: base path -> directory contents
    pc,                          \* position of the running to_hipscat call
    base_catalog_path,           \* argument
    catalog_name,                \* argument
    storage_options,             \* argument
    i,                           \* position of the for loop of write_partitions
    partition,                   \* the materialized partition of the current tile
    pixel_to_partition_size_map, \* local of write_partitions / to_hipscat
    partition_info,              \* local of to_hipscat
    new_hc_structure,            \* local of to_hipscat: reference into structs
    calls,                       \* log of the calls made by the running export
    written_files,               \* data file paths written by the running export
    written_meta,                \* metadata artifacts written by the running export
    raised,                      \* the exception leaving to_hipscat, if any
    prev                         \* outcome of the previous export call

vars == << ddf_pixel_map, ddf, structs, infos, disk, pc, base_catalog_path, catalog_name,
           storage_options, i, partition, pixel_to_partition_size_map, partition_info,
           new_hc_structure, calls, written_files, written_meta, raised, prev >>

catalog == << ddf_pixel_map, ddf >>
args == << base_catalog_path, catalog_name, storage_options >>
heap == << structs, infos >>
locals == << i, partition, pixel_to_partition_size_map, partition_info, new_hc_structure >>

\* -------------------------------------------------------- pure functions
get_file_pointer_from_path(path) == << "FilePointer", path >>

\* hc.io.paths.pixel_catalog_file: <base>/Norder=K/Dir=D/Npix=N.parquet
pixel_catalog_file_no_order(base_dir_fp, order, pixel) ==
    [base |-> base_dir_fp[2], Norder |-> 0, Dir |-> (pixel \div 10000) * 10000, Npix |-> pixel]

pixel_catalog_file(base_dir_fp, order, pixel) ==
    [base |-> base_dir_fp[2], Norder |-> order, Dir |-> (pixel \div 10000) * 10000, Npix |-> pixel]

_get_partition_info_dict_order(ddf_points_map) ==
    [p \in DOMAIN ddf_points_map |-> << ddf_points_map[p], << p.order >> >>]

_get_partition_info_dict(ddf_points_map) ==
    [p \in DOMAIN ddf_points_map |-> << ddf_points_map[p], << p.pixel >> >>]

RECURSIVE SumOver(_, _)
SumOver(f, S) ==
    IF S = {} THEN 0
    ELSE LET k == CHOOSE x \in S : TRUE IN f[k][1] + SumOver(f, S \ {k})

total_rows_count(info) == Cardinality(DOMAIN info)

\* sum(pi[0] for pi in partition_info.values())
total_rows(info) == SumOver(info, DOMAIN info)

output_name_source(name_arg, source_name) == source_name

\* catalog_name if catalog_name else catalog.hc_structure.catalog_name
output_name(name_arg, source_name) == IF Truthy(name_arg) THEN name_arg ELSE source_name

copy_alias(objects, ref) == [objects |-> objects, ref |-> ref]

\* copy.copy: a new object whose fields hold the same values (references included)
copy(objects, ref) ==
    [objects |-> [o \in DOMAIN objects \cup {"new"} |->
                     IF o = "new" THEN objects[ref] ELSE objects[o]],
     ref |-> "new"]

\* dataclasses.replace: a new CatalogInfo object, the others untouched
replace(objects, ref, name, total) ==
    [objects |-> [o \in DOMAIN objects \cup {"info_new"} |->
                     IF o = "info_new"
                     THEN [objects[ref] EXCEPT !.catalog_name = name, !.total_rows = total]
                     ELSE objects[o]],
     ref |-> "info_new"]

create_modified_catalog_structure(ss, is, catalog_structure, catalog_base_dir, name, total) ==
    LET c == copy(ss, catalog_structure)
        n == c.ref
        s1 == [c.objects EXCEPT ![n].catalog_name = name,
                                ![n].catalog_path = catalog_base_dir,
                                ![n].catalog_base_dir = get_file_pointer_from_path(catalog_base_dir),
                                ![n].on_disk = TRUE]
        r == replace(is, s1[n].catalog_info, name, total)
    IN [structs |-> [s1 EXCEPT ![n].catalog_info = r.ref], infos |-> r.objects, ref |-> n]

_get_provenance_info(ss, is, catalog_structure) ==
    LET s == ss[catalog_structure]
        catalog_info == is[s.catalog_info]
    IN [tool_name |-> "lsdb",
        version |-> "lsdb.version",
        runtime_args |->
            [catalog_name |-> s.catalog_name,
             output_path |-> s.catalog_path,
             output_catalog_name |-> s.catalog_name,
             catalog_path |-> s.catalog_path,
             epoch |-> catalog_info.epoch,
             catalog_type |-> catalog_info.catalog_type,
             ra_column |-> catalog_info.ra_column,
             dec_column |-> catalog_info.dec_column]]

\* lsdb.io.file_io.write_dataframe_to_parquet: one file at path, replacing what was there
write_dataframe_to_parquet(dir, dataframe, path) ==
    [dir EXCEPT !.files = { f \in dir.files : f.path # path }
                            \cup { [path |-> path, data |-> dataframe] }]

\* --------------------------------------------------------------- pipeline
Pipeline == << "make_directory", "write_partitions", "write_parquet_metadata",
               "write_partition_info", "write_catalog_info", "write_provenance_info" >>

StepIndex(s) == CHOOSE n \in DOMAIN Pipeline : Pipeline[n] = s

StepAfterSwapped(s) ==
    CASE s = "write_partitions" -> "write_partition_info"
      [] s = "write_partition_info" -> "write_parquet_metadata"
      [] s = "write_parquet_metadata" -> "write_catalog_info"
      [] OTHER -> IF StepIndex(s) = Len(Pipeline) THEN "done" ELSE Pipeline[StepIndex(s) + 1]

\* the statement that follows statement s in the body of to_hipscat
StepAfter(s) == IF StepIndex(s) = Len(Pipeline) THEN "done" ELSE Pipeline[StepIndex(s) + 1]

\* the descriptor of the source catalog (catalog.hc_structure) and its catalog_info
SourceInfo ==
    [catalog_name |-> "small_sky", catalog_type |-> "object", total_rows |-> 131,
     epoch |-> "J2000", ra_column |-> "ra", dec_column |-> "dec"]

SourceStructure ==
    [catalog_name |-> "small_sky", catalog_path |-> "src_dir",
     catalog_base_dir |-> get_file_pointer_from_path("src_dir"),
     on_disk |-> FALSE, catalog_info |-> "info_src"]

EmptyDir == [kind |-> "absent", files |-> {}, parquet_metadata |-> {}, partition_info |-> {},
             catalog_info |-> {}, provenance_info |-> {}]

Call(op, pixel, opts, ok) ==
    [op |-> op, base |-> base_catalog_path, pixel |-> pixel, opts |-> opts, ok |-> ok]

Raise(exc) ==
    /\ pc' = "raised"
    /\ raised' = [type |-> exc, cause |-> "None"]

\* ------------------------------------------------------------------- Init
Init ==
    /\ \E keys \in { s \in SeqsOver(HealpixPixels, MaxLen) : Distinct(s) } :
         /\ ddf_pixel_map = [j \in 1..Len(keys) |-> [pixel |-> keys[j], index |-> j]]
         /\ \E sizes \in [1..Len(keys) -> 0..MaxRows] :
              ddf = [j \in 1..Len(keys) |-> DataFrame(sizes[j])]
    /\ infos = [o \in {"info_src"} |-> SourceInfo]
    /\ structs = [o \in {"src"} |-> SourceStructure]
    /\ disk = [d \in BasePaths |->
                IF d = "occupied" THEN [EmptyDir EXCEPT !.kind = "file"] ELSE EmptyDir]
    /\ pc = "idle"
    /\ base_catalog_path = "None"
    /\ catalog_name = "None"
    /\ storage_options = "None"
    /\ i = 1
    /\ partition = << >>
    /\ pixel_to_partition_size_map = << >>
    /\ partition_info = << >>
    /\ new_hc_structure = "None"
    /\ calls = << >>
    /\ written_files = {}
    /\ written_meta = {}
    /\ raised = NoException
    /\ prev = [path |-> "None", ok |-> FALSE, total |-> 0]

\* ---------------------------------------------------------------- actions
\* the caller invokes to_hipscat(catalog, base_catalog_path, catalog_name, storage_options)
CallToHipscat ==
    /\ pc = "idle"
    /\ \E path \in BasePaths, name \in CatalogNameArgs, opts \in StorageOptionArgs :
         /\ base_catalog_path' = path
         /\ catalog_name' = name
         /\ storage_options' = opts
    /\ pc' = Pipeline[1]
    /\ UNCHANGED << catalog, heap, disk, locals, calls, written_files, written_meta, raised, prev >>

\* hc.io.file_io.make_directory(base_catalog_dir_fp) succeeds: the path was absent
MakeDirectory ==
    /\ pc = "make_directory"
    /\ disk[base_catalog_path].kind = "absent"
    /\ disk' = [disk EXCEPT ![base_catalog_path].kind = "dir"]
    /\ calls' = Append(calls, Call("make_directory", NoPixel, "None", TRUE))
    /\ pc' = StepAfter("make_directory")
    /\ UNCHANGED << catalog, heap, args, locals, written_files, written_meta, raised, prev >>

MakeDirectoryIgnoresFailure ==
    /\ pc = "make_directory"
    /\ disk[base_catalog_path].kind # "absent"
    /\ calls' = Append(calls, Call("make_directory", NoPixel, "None", FALSE))
    /\ pc' = StepAfter("make_directory")
    /\ UNCHANGED << catalog, heap, disk, args, locals, written_files, written_meta, raised, prev >>

\* hc.io.file_io.make_directory(base_catalog_dir_fp) raises: exist_ok is not passed, so an
\* existing directory or file at the path is an error, as is a location that is not writable
MakeDirectoryRaises ==
    /\ pc = "make_directory"
    /\ \/ /\ disk[base_catalog_path].kind # "absent"
          /\ Raise("FileExistsError")
       \/ /\ disk[base_catalog_path].kind = "absent"
          /\ Raise("PermissionError")
    /\ calls' = Append(calls, Call("make_directory", NoPixel, "None", FALSE))
    /\ UNCHANGED << catalog, heap, disk, args, locals, written_files, written_meta, prev >>

\* for pixel, partition_index in catalog._ddf_pixel_map.items():
\*     partition = catalog._ddf.partitions[partition_index].compute()
ComputePartition ==
    /\ pc = "write_partitions"
    /\ i <= Len(ddf_pixel_map)
    /\ \E ok \in BOOLEAN :
         /\ calls' = Append(calls, Call("compute", ddf_pixel_map[i].pixel, "n/a", ok))
         /\ IF ok
            THEN /\ partition' = ddf[ddf_pixel_map[i].index]
                 /\ pc' = "write_dataframe"
                 /\ UNCHANGED raised
            ELSE /\ Raise("ComputeError")
                 /\ UNCHANGED partition
    /\ UNCHANGED << catalog, heap, disk, args, i, pixel_to_partition_size_map, partition_info,
                    new_hc_structure, written_files, written_meta, prev >>

\*     pixel_path = hc.io.paths.pixel_catalog_file(base_catalog_dir_fp, pixel.order, pixel.pixel)
\*     file_io.write_dataframe_to_parquet(partition, pixel_path, storage_options)
\*     pixel_to_partition_size_map[pixel] = len(partition)
WriteDataframe ==
    /\ pc = "write_dataframe"
    /\ LET pixel == ddf_pixel_map[i].pixel
           pixel_path == pixel_catalog_file(get_file_pointer_from_path(base_catalog_path),
                                            pixel.order, pixel.pixel)
       IN /\ disk' = [disk EXCEPT ![base_catalog_path] =
                         write_dataframe_to_parquet(@, partition, pixel_path)]
          /\ calls' = Append(calls, Call("write_dataframe_to_parquet", pixel, storage_options, TRUE))
          /\ written_files' = written_files \cup {pixel_path}
          /\ pixel_to_partition_size_map' =
                [p \in DOMAIN pixel_to_partition_size_map \cup {pixel} |->
                    IF p = pixel THEN Len(partition) ELSE pixel_to_partition_size_map[p]]
    /\ i' = i + 1
    /\ pc' = "write_partitions"
    /\ UNCHANGED << catalog, heap, args, partition, partition_info, new_hc_structure,
                    written_meta, raised, prev >>

WriteDataframeSwallowsFailure ==
    /\ pc = "write_dataframe"
    /\ calls' = Append(calls, Call("write_dataframe_to_parquet", ddf_pixel_map[i].pixel,
                                   storage_options, FALSE))
    /\ i' = i + 1
    /\ pc' = "write_partitions"
    /\ UNCHANGED << catalog, heap, disk, args, partition, pixel_to_partition_size_map,
                    partition_info, new_hc_structure, written_files, written_meta, raised, prev >>

\* file_io.write_dataframe_to_parquet raises: nothing catches it, the loop and the call end
WriteDataframeRaises ==
    /\ pc = "write_dataframe"
    /\ calls' = Append(calls, Call("write_dataframe_to_parquet", ddf_pixel_map[i].pixel,
                                   storage_options, FALSE))
    /\ Raise("OSError")
    /\ UNCHANGED << catalog, heap, disk, args, locals, written_files, written_meta, prev >>

\* the dict iterator is exhausted: return pixel_to_partition_size_map
ReturnPartitionSizes ==
    /\ pc = "write_partitions"
    /\ i > Len(ddf_pixel_map)
    /\ pc' = StepAfter("write_partitions")
    /\ UNCHANGED << catalog, heap, disk, args, locals, calls, written_files, written_meta,
                    raised, prev >>

\* hc.io.write_parquet_metadata(base_catalog_path, storage_options)
WriteParquetMetadata ==
    /\ pc = "write_parquet_metadata"
    /\ \E ok \in BOOLEAN :
         /\ calls' = Append(calls, Call("write_parquet_metadata", NoPixel, storage_options, ok))
         /\ IF ok
            THEN /\ disk' = [disk EXCEPT ![base_catalog_path].parquet_metadata =
                                { { f.path : f \in disk[base_catalog_path].files } }]
                 /\ written_meta' = written_meta \cup {"parquet_metadata"}
                 /\ pc' = StepAfter("write_parquet_metadata")
                 /\ UNCHANGED raised
            ELSE /\ Raise("OSError")
                 /\ UNCHANGED << disk, written_meta >>
    /\ UNCHANGED << catalog, heap, args, locals, written_files, prev >>

\* partition_info = _get_partition_info_dict(pixel_to_partition_size_map)
\* hc.io.write_partition_info(base_catalog_dir_fp, partition_info, storage_options)
WritePartitionInfo ==
    /\ pc = "write_partition_info"
    /\ partition_info' = _get_partition_info_dict(pixel_to_partition_size_map)
    /\ \E ok \in BOOLEAN :
         /\ calls' = Append(calls, Call("write_partition_info", NoPixel, storage_options, ok))
         /\ IF ok
            THEN /\ disk' = [disk EXCEPT ![base_catalog_path].partition_info = {partition_info'}]
                 /\ written_meta' = written_meta \cup {"partition_info"}
                 /\ pc' = StepAfter("write_partition_info")
                 /\ UNCHANGED raised
            ELSE /\ Raise("OSError")
                 /\ UNCHANGED << disk, written_meta >>
    /\ UNCHANGED << catalog, heap, args, i, partition, pixel_to_partition_size_map,
                    new_hc_structure, written_files, prev >>

\* new_hc_structure = create_modified_catalog_structure(...)
\* hc.io.write_catalog_info(base_catalog_path, new_hc_structure.catalog_info, storage_options)
WriteCatalogInfo ==
    /\ pc = "write_catalog_info"
    /\ LET m == create_modified_catalog_structure(
                    structs, infos, "src", base_catalog_path,
                    output_name(catalog_name, structs["src"].catalog_name),
                    total_rows(partition_info))
       IN /\ structs' = m.structs
          /\ infos' = m.infos
          /\ new_hc_structure' = m.ref
          /\ \E ok \in BOOLEAN :
               /\ calls' = Append(calls, Call("write_catalog_info", NoPixel, storage_options, ok))
               /\ IF ok
                  THEN /\ disk' = [disk EXCEPT ![base_catalog_path].catalog_info =
                                      { m.infos[m.structs[m.ref].catalog_info] }]
                       /\ written_meta' = written_meta \cup {"catalog_info"}
                       /\ pc' = StepAfter("write_catalog_info")
                       /\ UNCHANGED raised
                  ELSE /\ Raise("OSError")
                       /\ UNCHANGED << disk, written_meta >>
    /\ UNCHANGED << catalog, args, i, partition, pixel_to_partition_size_map, partition_info,
                    written_files, prev >>

\* hc.io.write_metadata.write_provenance_info(base_catalog_dir_fp,
\*     new_hc_structure.catalog_info, _get_provenance_info(new_hc_structure), storage_options)
WriteProvenanceInfo ==
    /\ pc = "write_provenance_info"
    /\ \E ok \in BOOLEAN :
         /\ calls' = Append(calls, Call("write_provenance_info", NoPixel, storage_options, ok))
         /\ IF ok
            THEN /\ disk' = [disk EXCEPT ![base_catalog_path].provenance_info =
                                { _get_provenance_info(structs, infos, new_hc_structure) }]
                 /\ written_meta' = written_meta \cup {"provenance_info"}
                 /\ pc' = StepAfter("write_provenance_info")
                 /\ UNCHANGED raised
            ELSE /\ Raise("OSError")
                 /\ UNCHANGED << disk, written_meta >>
    /\ UNCHANGED << catalog, heap, args, locals, written_files, prev >>

\* to_hipscat returns None, or the exception reaches the caller; the locals of the call and
\* the descriptor built by it are dropped
Return ==
    /\ pc \in {"done", "raised"}
    /\ prev' = [path |-> base_catalog_path,
                ok |-> (pc = "done"),
                total |-> IF pc = "done" THEN infos[structs[new_hc_structure].catalog_info].total_rows
                          ELSE 0]
    /\ structs' = [o \in {"src"} |-> structs[o]]
    /\ infos' = [o \in {"info_src"} |-> infos[o]]
    /\ pc' = "idle"
    /\ base_catalog_path' = "None"
    /\ catalog_name' = "None"
    /\ storage_options' = "None"
    /\ i' = 1
    /\ partition' = << >>
    /\ pixel_to_partition_size_map' = << >>
    /\ partition_info' = << >>
    /\ new_hc_structure' = "None"
    /\ calls' = << >>
    /\ written_files' = {}
    /\ written_meta' = {}
    /\ raised' = NoException
    /\ UNCHANGED << catalog, disk >>

Next ==
    \/ CallToHipscat
    \/ MakeDirectory
    \/ MakeDirectoryRaises
    \/ ComputePartition
    \/ WriteDataframe
    \/ WriteDataframeRaises
    \/ ReturnPartitionSizes
    \/ WriteParquetMetadata
    \/ WritePartitionInfo
    \/ WriteCatalogInfo
    \/ WriteProvenanceInfo
    \/ Return

Spec == Init /\ [][Next]_vars

\* ----------------------------------------------------------------- claims
TileKeys == { ddf_pixel_map[j].pixel : j \in DOMAIN ddf_pixel_map }

PartitionOf(k) ==
    ddf[ddf_pixel_map[CHOOSE j \in DOMAIN ddf_pixel_map : ddf_pixel_map[j].pixel = k].index]

RECURSIVE RowsUpTo(_)
RowsUpTo(j) == IF j = 0 THEN 0 ELSE RowsUpTo(j - 1) + Len(ddf[ddf_pixel_map[j].index])

WritesOf(k) ==
    { n \in DOMAIN calls : calls[n].op = "write_dataframe_to_parquet" /\ calls[n].pixel = k }

Destination == disk[base_catalog_path]

\* C1: a successful export writes exactly one data file per tile key of the pixel map, at
\* the path made of (destination, order, pixel); empty partitions are written too and
\* recorded with row count 0; the files written are exactly those of the tile keys.
C1_OneFilePerTileKey ==
    pc = "done" =>
        /\ \A k \in TileKeys :
             /\ Cardinality(WritesOf(k)) = 1
             /\ \E p \in written_files :
                  /\ p.base = base_catalog_path /\ p.Norder = k.order /\ p.Npix = k.pixel
                  /\ [path |-> p, data |-> PartitionOf(k)] \in Destination.files
             /\ pixel_to_partition_size_map[k] = Len(PartitionOf(k))
        /\ DOMAIN pixel_to_partition_size_map = TileKeys
        /\ Cardinality(written_files) = Cardinality(TileKeys)
        /\ { f.path : f \in Destination.files } = written_files

C1_Witness ==
    /\ pc = "done"
    /\ Len(ddf_pixel_map) = MaxLen
    /\ \E k \in TileKeys : PartitionOf(k) = << >> /\ pixel_to_partition_size_map[k] = 0
    /\ \E k1, k2 \in TileKeys : k1 # k2 /\ k1.pixel = k2.pixel

\* C2: the total row count of the written catalog info is the sum of the row counts of
\* the materialized partitions of all tile keys, not the source descriptor's total.
C2_TotalIsSumOfPartitions ==
    "catalog_info" \in written_meta =>
        /\ Cardinality(Destination.catalog_info) = 1
        /\ \A ci \in Destination.catalog_info : ci.total_rows = RowsUpTo(Len(ddf_pixel_map))

C2_Witness ==
    /\ pc = "done"
    /\ Len(ddf_pixel_map) = 2
    /\ Len(ddf[1]) = 1 /\ Len(ddf[2]) = 2
    /\ \A ci \in Destination.catalog_info : ci.total_rows = 3 /\ ci.total_rows # SourceInfo.total_rows

\* C3: the written partition info has the tile keys of the row-count map, and the entry
\* of each tile key is (its recorded row count, the one-element list of its pixel number).
C3_PartitionInfoEntries ==
    "partition_info" \in written_meta =>
        /\ Cardinality(Destination.partition_info) = 1
        /\ \A info \in Destination.partition_info :
             /\ DOMAIN info = DOMAIN pixel_to_partition_size_map
             /\ \A k \in DOMAIN info :
                  /\ info[k][1] = pixel_to_partition_size_map[k]
                  /\ Len(info[k][2]) = 1
                  /\ info[k][2][1] = k.pixel

C3_Witness ==
    /\ "partition_info" \in written_meta
    /\ \E info \in Destination.partition_info :
         /\ [order |-> 1, pixel |-> 3] \in DOMAIN info
         /\ info[[order |-> 1, pixel |-> 3]][2] = << 3 >>

\* C4: when make_directory fails, the export has raised and this call has materialized no
\* partition and written no data file and no metadata artifact.
C4_NothingWrittenWhenMkdirFails ==
    (Len(calls) >= 1 /\ calls[1].op = "make_directory" /\ ~calls[1].ok) =>
        /\ pc = "raised"
        /\ Len(calls) = 1
        /\ written_files = {}
        /\ written_meta = {}
        /\ partition = << >>
        /\ DOMAIN pixel_to_partition_size_map = {}

C4_Witness ==
    /\ pc = "raised"
    /\ base_catalog_path = "occupied"
    /\ Destination.kind = "file"
    /\ Len(ddf_pixel_map) >= 1
    /\ ~calls[1].ok

\* C5 as stated: whenever an override is given, the written name and the provenance names
\* equal the override; the columns and the catalog type are the source's.
C5_Original ==
    (pc = "done" /\ catalog_name # "None") =>
        /\ \A ci \in Destination.catalog_info : ci.catalog_name = catalog_name
        /\ \A pr \in Destination.provenance_info :
             /\ pr.runtime_args.catalog_name = catalog_name
             /\ pr.runtime_args.output_catalog_name = catalog_name

\* C5 amended: a non-empty override becomes the name of the written catalog info and the
\* provenance catalog_name and output_catalog_name; with no override or an empty one the
\* name is the source's; ra_column, dec_column and catalog_type are the source's in both.
C5_NameOverride ==
    pc = "done" =>
        LET expected == IF catalog_name \in {"None", ""} THEN SourceStructure.catalog_name
                        ELSE catalog_name
        IN /\ Cardinality(Destination.catalog_info) = 1
           /\ Cardinality(Destination.provenance_info) = 1
           /\ \A ci \in Destination.catalog_info :
                /\ ci.catalog_name = expected
                /\ ci.ra_column = SourceInfo.ra_column
                /\ ci.dec_column = SourceInfo.dec_column
                /\ ci.catalog_type = SourceInfo.catalog_type
           /\ \A pr \in Destination.provenance_info :
                /\ pr.runtime_args.catalog_name = expected
                /\ pr.runtime_args.output_catalog_name = expected
                /\ pr.runtime_args.ra_column = SourceInfo.ra_column
                /\ pr.runtime_args.dec_column = SourceInfo.dec_column
                /\ pr.runtime_args.catalog_type = SourceInfo.catalog_type

C5_Witness ==
    /\ pc = "done"
    /\ catalog_name = "new_sky"
    /\ \E ci \in Destination.catalog_info :
         ci.catalog_name = "new_sky" /\ ci.catalog_name # SourceInfo.catalog_name

\* C6: the source descriptor and its catalog_info are never changed: name, path, base
\* directory pointer, on-disk flag and catalog_info stay as they were before the call.
C6_SourceNotMutated ==
    /\ structs["src"] = SourceStructure
    /\ infos[structs["src"].catalog_info] = SourceInfo

C6_Witness ==
    /\ pc = "write_provenance_info"
    /\ new_hc_structure = "new"
    /\ structs["new"].catalog_name # structs["src"].catalog_name
    /\ structs["new"].on_disk # structs["src"].on_disk
    /\ infos[structs["new"].catalog_info].total_rows # infos["info_src"].total_rows

\* C7 as stated: every I/O call of the running export (directory creation, data file
\* writes, the four metadata writes) is given the caller's storage options.
IOCalls ==
    {"make_directory", "write_dataframe_to_parquet", "write_parquet_metadata",
     "write_partition_info", "write_catalog_info", "write_provenance_info"}

C7_Original ==
    \A n \in DOMAIN calls : calls[n].op \in IOCalls => calls[n].opts = storage_options

\* C8 as stated: an export to the destination of the preceding successful export of the
\* same catalog, not hit by an I/O fault, succeeds and writes the same total row count.
InjectedFaults == {"PermissionError", "ComputeError", "OSError"}

C8_Original ==
    (/\ pc \in {"done", "raised"}
     /\ prev.ok
     /\ prev.path = base_catalog_path
     /\ raised.type \notin InjectedFaults) =>
        /\ pc = "done"
        /\ \A ci \in Destination.catalog_info : ci.total_rows = prev.total

\* C9: the calls of an export are made in the order make_directory, then for each tile key
\* in map order compute followed by the write of its file, then parquet metadata, partition
\* info, catalog info, provenance; each call is made only after the one before succeeded.
RECURSIVE PartitionCalls(_)
PartitionCalls(j) ==
    IF j = 0 THEN << >>
    ELSE PartitionCalls(j - 1) \o << [op |-> "compute", pixel |-> ddf_pixel_map[j].pixel],
                                     [op |-> "write_dataframe_to_parquet",
                                      pixel |-> ddf_pixel_map[j].pixel] >>

ExpectedCalls ==
    << [op |-> "make_directory", pixel |-> NoPixel] >>
    \o PartitionCalls(Len(ddf_pixel_map))
    \o << [op |-> "write_parquet_metadata", pixel |-> NoPixel],
          [op |-> "write_partition_info", pixel |-> NoPixel],
          [op |-> "write_catalog_info", pixel |-> NoPixel],
          [op |-> "write_provenance_info", pixel |-> NoPixel] >>

C9_StepsInOrder ==
    /\ Len(calls) <= Len(ExpectedCalls)
    /\ \A n \in DOMAIN calls :
         /\ calls[n].op = ExpectedCalls[n].op
         /\ calls[n].pixel = ExpectedCalls[n].pixel
         /\ n < Len(calls) => calls[n].ok
    /\ pc = "done" => Len(calls) = Len(ExpectedCalls) /\ calls[Len(calls)].ok

C9_Witness ==
    /\ pc = "done"
    /\ Len(ddf_pixel_map) = 2
    /\ Len(calls) = 9

\* C10 as stated: a failing partition makes the export fail with a PartitionWriteError
\* that wraps the underlying failure.
PartitionCallFailed ==
    \E n \in DOMAIN calls :
        calls[n].op \in {"compute", "write_dataframe_to_parquet"} /\ ~calls[n].ok

C10_Original ==
    PartitionCallFailed =>
        /\ pc = "raised"
        /\ raised.type = "PartitionWriteError"
        /\ raised.cause \in {"ComputeError", "OSError"}

\* C10 amended: a failing partition makes the export fail with the underlying failure
\* itself (not wrapped), with no retry and no rollback: the files of the tile keys before
\* the failing one are on disk, no later partition is computed or written, and no metadata
\* step runs.
C10_PartitionFailureIsFatal ==
    PartitionCallFailed =>
        LET n == Len(calls)
            failing == calls[n].pixel
            pos == CHOOSE j \in DOMAIN ddf_pixel_map : ddf_pixel_map[j].pixel = failing
            before == { ddf_pixel_map[j].pixel : j \in 1..(pos - 1) }
        IN /\ pc = "raised"
           /\ raised.type \in {"ComputeError", "OSError"}
           /\ raised.cause = "None"
           /\ calls[n].op \in {"compute", "write_dataframe_to_parquet"} /\ ~calls[n].ok
           /\ \A m \in 1..(n - 1) : calls[m].ok
           /\ Cardinality({ m \in DOMAIN calls :
                               calls[m].pixel = failing /\ calls[m].op = calls[n].op }) = 1
           /\ Cardinality(written_files) = Cardinality(before)
           /\ \A k \in before :
                \E f \in Destination.files :
                    /\ f.path \in written_files
                    /\ f.path.Norder = k.order /\ f.path.Npix = k.pixel
                    /\ f.data = PartitionOf(k)
           /\ DOMAIN pixel_to_partition_size_map = before
           /\ written_meta = {}

C10_Witness ==
    /\ pc = "raised"
    /\ Len(calls) = 5
    /\ calls[5].op = "write_dataframe_to_parquet" /\ ~calls[5].ok
    /\ Cardinality(written_files) = 1
    /\ raised.type = "OSError"

====
